---- MODULE Spec2Model ----
(***************************************************************************)
(* network3.py: construction of a Network from a list of layers            *)
(* (Network.__init__ and the layers' set_inpt) and the training driver     *)
(* Network.SGD with its four compiled evaluators.                          *)
(*                                                                         *)
(* Two specifications share the variables:                                 *)
(*   SpecNet  one call of Network(layers, mini_batch_size)                 *)
(*   Spec     one call of net.SGD(...) on a constructed network, followed  *)
(*            by downstream calls of net.test_mb_predictions               *)
(*                                                                         *)
(* Abstractions.  A symbolic tensor expression is the chain of operations  *)
(* applied to the placeholder x, written as a sequence of <<op, layer>>    *)
(* tokens.  A dataset split is its row count.  A parameter tensor is the   *)
(* number of updates applied to it.  A mini-batch accuracy mean(eq(y,      *)
(* y_out)) is the fraction <<k, B>> of k correct rows among B, and means   *)
(* are exact fractions (floating-point rounding is not modelled); the mean *)
(* of an empty list is NaN, written <<0, 0>>.  Python's 0-based layer      *)
(* index j is position j+1 of the sequences here.                          *)
(*                                                                         *)
(* As the file stands, GPU = True at line 55 makes the import print two    *)
(* lines and call exit() (line 67) before any class is defined.  The       *)
(* classes are modelled as the file defines them once that branch is not   *)
(* taken (GPU = False, which the printed message invites).                 *)
(***************************************************************************)
EXTENDS Integers, Sequences, FiniteSets, TLC

VARIABLES
    \* Network.__init__
    layers,             \* the constructor's argument: the layer objects
    layer_state,        \* per layer: the attributes set_inpt assigns
    calls,              \* the set_inpt invocations made so far
    net_pc,             \* position in Network.__init__
    net,                \* the Network's own output / output_dropout
    \* Network.SGD: arguments and the object it runs on
    data,               \* row count of the training / validation / test split
    epochs,
    mini_batch_size,    \* the SGD argument
    self,               \* the Network: mini_batch_size, kind of layers[-1]
    \* Network.SGD: control and local variables
    pc,
    locals,             \* the bound local names and their values
    range_iter,         \* next value of the two range() iterators
    acc_list,           \* the list a list comprehension is building
    \* state shared with the compiled evaluators, and what can be observed
    params,             \* per parameter tensor: number of updates applied
    in_progress,        \* evaluators whose call has not returned
    last_call,          \* the most recent evaluator call and the rows it reads
    train_calls,        \* mini-batch indices passed to train_mb this epoch
    stdout,             \* the lines printed
    error               \* the exception that ended the call, "" if none

netVars == <<layers, layer_state, calls, net_pc, net>>
sgdVars == <<data, epochs, mini_batch_size, self, pc, locals, range_iter,
             acc_list, params, in_progress, last_call, train_calls, stdout>>
vars == <<netVars, sgdVars, error>>

----------------------------------------------------------------------------
(* Bounds of the model *)

MaxRows == 3
MaxBatch == 2
MaxEpochs == 2
MaxLayers == 2
MaxSize == 2

(* Program constant: a progress line every 1000 iterations (line 366) *)
ProgressEvery == 1000

----------------------------------------------------------------------------
(* Python values *)

Unbound == <<>>

Assign(ns, name, value) ==
    [n \in (DOMAIN ns) \cup {name} |-> IF n = name THEN value ELSE ns[n]]

IsBound(ns, name) == name \in DOMAIN ns

\* int(a / b) for a >= 0: true division, then truncation toward zero
IntTrueDiv(a, b) == IF b > 0 THEN a \div b ELSE 0 - (a \div (0 - b))

Min(a, b) == IF a < b THEN a ELSE b

(* Fractions <<numerator, denominator>>; <<0, 0>> is NaN *)
NaN == <<0, 0>>
Zero == <<0, 1>>
IsNaN(a) == a[2] = 0
\* a >= b on floats: False when either is NaN
GE(a, b) == ~IsNaN(a) /\ ~IsNaN(b) /\ a[1] * b[2] >= b[1] * a[2]

RECURSIVE SumNum(_)
SumNum(s) == IF s = <<>> THEN 0 ELSE s[1][1] + SumNum(Tail(s))

\* np.mean of a list of mini-batch accuracies, all over B rows
Mean(s) == IF s = <<>> THEN NaN ELSE <<SumNum(s), s[1][2] * Len(s)>>

----------------------------------------------------------------------------
(* Symbolic expressions and the layers' set_inpt *)

X == << <<"x", 0>> >>

LayerKinds == {"FullyConnectedLayer", "SoftmaxLayer", "ConvPoolLayer"}

\* A layer object after its __init__.  For a ConvPoolLayer n_in and n_out
\* stand for the flattened sizes its image_shape and filter_shape imply.
LayerSpace == [kind : LayerKinds, n_in : 1..MaxSize, n_out : 1..MaxSize]

\* No __init__ assigns inpt, output, output_dropout, inpt_dropout or y_out
FreshLayer ==
    [inpt |-> Unbound, output |-> Unbound, output_dropout |-> Unbound,
     inpt_dropout |-> Unbound, y_out |-> Unbound]

Reshape(e, n) == Append(e, <<"reshape", n>>)

DropoutLayer(e, j) == Append(e, <<"dropout", j>>)

OutputFn(kind) == IF kind = "SoftmaxLayer" THEN "softmax" ELSE "activation_fn"

\* FullyConnectedLayer.set_inpt and SoftmaxLayer.set_inpt on layer j
DenseSetInpt(j, l, st, inpt, inpt_dropout) ==
    LET self_inpt == Reshape(inpt, l.n_in)
        output == self_inpt \o << <<"scaled_dot_plus_b", j>>, <<OutputFn(l.kind), j>> >>
        self_inpt_dropout == DropoutLayer(Reshape(inpt_dropout, l.n_in), j)
    IN  [inpt |-> self_inpt,
         output |-> output,
         y_out |-> Append(output, <<"argmax", j>>),
         inpt_dropout |-> self_inpt_dropout,
         output_dropout |->
             self_inpt_dropout \o << <<"dot_plus_b", j>>, <<OutputFn(l.kind), j>> >>]

\* ConvPoolLayer.set_inpt reads self.inpt (line 142) before assigning it
\* (line 160): AttributeError while the attribute does not exist
ConvSetInptRaises(st) == st.inpt = Unbound

ConvSetInpt(j, l, st, inpt, inpt_dropout) ==
    LET input_tensor == st.inpt
        conv_out == Append(input_tensor, <<"conv_general_dilated", j>>)
        pooled_out == Append(conv_out, <<"reduce_window", j>>)
        output == pooled_out \o << <<"plus_b", j>>, <<"activation_fn", j>> >>
    IN  [st EXCEPT !.inpt = Reshape(inpt, l.n_in),
                   !.output = output,
                   !.output_dropout = output]

SetInptRaises(l, st) == l.kind = "ConvPoolLayer" /\ ConvSetInptRaises(st)

SetInpt(j, l, st, inpt, inpt_dropout) ==
    IF l.kind = "ConvPoolLayer"
    THEN ConvSetInpt(j, l, st, inpt, inpt_dropout)
    ELSE DenseSetInpt(j, l, st, inpt, inpt_dropout)

----------------------------------------------------------------------------
(* Network.__init__ *)

\* (had the two paths been crossed)
CrossedLayerInputs(prev) == <<prev.output_dropout, prev.output>>
\* What layer j >= 1 is given: the previous layer's two outputs (lines 291-292)
NextLayerInputs(prev) == <<prev.output, prev.output_dropout>>

\* One set_inpt call made by the constructor on the layer at position p
CallSetInpt(p, inpt, inpt_dropout) ==
    /\ calls' = Append(calls, [layer |-> p, inpt |-> inpt, inpt_dropout |-> inpt_dropout])
    /\ IF SetInptRaises(layers[p], layer_state[p])
       THEN /\ net_pc' = "error"
            /\ error' = "AttributeError"
            /\ UNCHANGED <<layer_state, net>>
       ELSE /\ layer_state' = [layer_state EXCEPT ![p] =
                   SetInpt(p - 1, layers[p], layer_state[p], inpt, inpt_dropout)]
            /\ net_pc' = "wire"
            /\ net' = [net EXCEPT !.j = p + 1]
            /\ error' = error

\* lines 275-287: self.layers[0] of an empty list is an IndexError
WireFirst ==
    /\ net_pc = "init"
    /\ IF layers = <<>>
       THEN /\ net_pc' = "error"
            /\ error' = "IndexError"
            /\ UNCHANGED <<layer_state, calls, net>>
       ELSE CallSetInpt(1, X, X)
    /\ UNCHANGED <<layers, sgdVars>>

\* lines 289-292
WireNext ==
    /\ net_pc = "wire"
    /\ net.j <= Len(layers)
    /\ LET given == NextLayerInputs(layer_state[net.j - 1])
       IN  CallSetInpt(net.j, given[1], given[2])
    /\ UNCHANGED <<layers, sgdVars>>

\* lines 293-294
FinishInit ==
    /\ net_pc = "wire"
    /\ net.j > Len(layers)
    /\ net' = [net EXCEPT !.output = layer_state[Len(layers)].output,
                          !.output_dropout = layer_state[Len(layers)].output_dropout]
    /\ net_pc' = "constructed"
    /\ UNCHANGED <<layers, layer_state, calls, sgdVars, error>>

----------------------------------------------------------------------------
(* Network.SGD: batch counts, slices, the update rule *)

\* (had a partial last batch been counted)
CeilBatches(rows, batch) ==
    IF batch > 0 THEN (rows + batch - 1) \div batch ELSE IntTrueDiv(rows, batch)
\* lines 304-306: int(size(split) / mini_batch_size)
NumBatches(rows, batch) == IntTrueDiv(rows, batch)

\* split[i*self.mini_batch_size : (i+1)*self.mini_batch_size], i >= 0: the
\* bounds asked for, and the rows a Python slice yields (clamped to the split)
Slice(split, i) ==
    LET lo == i * self.mini_batch_size
        hi == (i + 1) * self.mini_batch_size
    IN  [split |-> split, i |-> i, lo |-> lo, hi |-> hi,
         rows_read |-> Min(hi, data[split]) - Min(lo, data[split])]

\* The layers reshape their input to (self.mini_batch_size, n_in): an
\* evaluator given fewer rows raises when it runs
FullBatch(call) == call.rows_read = self.mini_batch_size

\* (had the updates left out the biases, the even positions of params)
WeightsOnlyUpdates(ps) == [p \in DOMAIN ps |-> IF p % 2 = 1 THEN ps[p] + 1 ELSE ps[p]]
\* lines 315-316: updates holds one (param, param - eta*grad) per parameter
Updates(ps) == [p \in DOMAIN ps |-> ps[p] + 1]

\* line 369
EndOfEpoch(iteration, num_training_batches) ==
    (iteration + 1) % num_training_batches = 0

\* (had the comparison been >)
StrictlyBetter(validation_accuracy, best) ==
    GE(validation_accuracy, best) /\ ~GE(best, validation_accuracy)
\* line 374
IsNewBest(validation_accuracy, best) == GE(validation_accuracy, best)

\* line 378: test_data is the pair unpacked at line 301, which is truthy
TestDataGiven == TRUE

\* (had the test accuracy been computed at the first new best only)
TestOnlyOnce(recorded) == recorded /\ ~IsBound(locals, "test_accuracy")
\* lines 378-380: the test accuracy is computed where a new best is recorded
TestAfterValidation(recorded) == recorded /\ TestDataGiven

PrintLine(line) == stdout' = Append(stdout, line)

NoCall == [fn |-> "none", split |-> "none", i |-> 0, lo |-> 0, hi |-> 0, rows_read |-> 0]

Call(fn, split, i) ==
    /\ in_progress' = in_progress \cup {fn}
    /\ last_call' = [fn |-> fn] @@ Slice(split, i)

Return(fn) == in_progress' = in_progress \ {fn}

----------------------------------------------------------------------------
(* Network.SGD: the steps *)

\* lines 299-306; a mini_batch_size of 0 is a ZeroDivisionError at line 304
ComputeBatchCounts ==
    /\ pc = "start"
    /\ IF mini_batch_size = 0
       THEN /\ pc' = "error"
            /\ error' = "ZeroDivisionError"
            /\ UNCHANGED locals
       ELSE /\ locals' =
                 Assign(Assign(Assign(locals,
                     "num_training_batches", NumBatches(data.training, mini_batch_size)),
                     "num_validation_batches", NumBatches(data.validation, mini_batch_size)),
                     "num_test_batches", NumBatches(data.test, mini_batch_size))
            /\ pc' = "graph"
            /\ error' = error
    /\ UNCHANGED <<netVars, data, epochs, mini_batch_size, self, range_iter, acc_list,
                   params, in_progress, last_call, train_calls, stdout>>

\* lines 308-362: the cost is layers[-1].cost, which only SoftmaxLayer has; the
\* symbolic division by num_training_batches (line 311) raises nothing
BuildGraph ==
    /\ pc = "graph"
    /\ IF self.last_layer # "SoftmaxLayer"
       THEN /\ pc' = "error"
            /\ error' = "AttributeError"
            /\ UNCHANGED locals
       ELSE /\ locals' = Assign(locals, "best_validation_accuracy", Zero)
            /\ pc' = "for_epoch"
            /\ error' = error
    /\ UNCHANGED <<netVars, data, epochs, mini_batch_size, self, range_iter, acc_list,
                   params, in_progress, last_call, train_calls, stdout>>

\* line 363: range(epochs) yields its next value
NextEpoch ==
    /\ pc = "for_epoch"
    /\ range_iter.epoch < epochs
    /\ locals' = Assign(locals, "epoch", range_iter.epoch)
    /\ range_iter' = [epoch |-> range_iter.epoch + 1, minibatch |-> 0]
    /\ train_calls' = <<>>
    /\ pc' = "for_minibatch"
    /\ UNCHANGED <<netVars, data, epochs, mini_batch_size, self, acc_list,
                   params, in_progress, last_call, stdout, error>>

\* line 363: range(epochs) is exhausted
EndEpochs ==
    /\ pc = "for_epoch"
    /\ ~(range_iter.epoch < epochs)
    /\ pc' = "report"
    /\ UNCHANGED <<netVars, data, epochs, mini_batch_size, self, locals, range_iter,
                   acc_list, params, in_progress, last_call, train_calls, stdout, error>>

\* lines 364-367
NextMinibatch ==
    /\ pc = "for_minibatch"
    /\ range_iter.minibatch < locals.num_training_batches
    /\ LET iteration == locals.num_training_batches * locals.epoch + range_iter.minibatch
       IN  /\ locals' = Assign(Assign(locals, "minibatch_index", range_iter.minibatch),
                               "iteration", iteration)
           /\ IF iteration % ProgressEvery = 0
              THEN PrintLine(<<"training", iteration>>)
              ELSE stdout' = stdout
    /\ range_iter' = [range_iter EXCEPT !.minibatch = @ + 1]
    /\ pc' = "train"
    /\ UNCHANGED <<netVars, data, epochs, mini_batch_size, self, acc_list,
                   params, in_progress, last_call, train_calls, error>>

\* line 364: range(num_training_batches) is exhausted
EndMinibatches ==
    /\ pc = "for_minibatch"
    /\ ~(range_iter.minibatch < locals.num_training_batches)
    /\ pc' = "for_epoch"
    /\ UNCHANGED <<netVars, data, epochs, mini_batch_size, self, locals, range_iter,
                   acc_list, params, in_progress, last_call, train_calls, stdout, error>>

\* line 368: train_mb(minibatch_index) is called
CallTrain ==
    /\ pc = "train"
    /\ Call("train_mb", "training", locals.minibatch_index)
    /\ train_calls' = Append(train_calls, locals.minibatch_index)
    /\ pc' = "in_train_mb"
    /\ UNCHANGED <<netVars, data, epochs, mini_batch_size, self, locals, range_iter,
                   acc_list, params, stdout, error>>

\* lines 368-369: train_mb applies the updates and returns the cost
ReturnTrain ==
    /\ pc = "in_train_mb"
    /\ FullBatch(last_call)
    /\ params' = Updates(params)
    /\ Return("train_mb")
    /\ locals' = Assign(locals, "cost_ij", "cost")
    /\ IF EndOfEpoch(locals.iteration, locals.num_training_batches)
       THEN pc' = "validate" /\ acc_list' = <<>>
       ELSE pc' = "for_minibatch" /\ acc_list' = acc_list
    /\ UNCHANGED <<netVars, data, epochs, mini_batch_size, self, range_iter,
                   last_call, train_calls, stdout, error>>

\* line 371: validate_mb_accuracy(j) for the next j of range(num_validation_batches)
CallValidate ==
    /\ pc = "validate"
    /\ Len(acc_list) < locals.num_validation_batches
    /\ Call("validate_mb_accuracy", "validation", Len(acc_list))
    /\ pc' = "in_validate_mb"
    /\ UNCHANGED <<netVars, data, epochs, mini_batch_size, self, locals, range_iter,
                   acc_list, params, train_calls, stdout, error>>

\* line 371: it returns the fraction of the mini-batch's rows predicted right
ReturnValidate ==
    /\ pc = "in_validate_mb"
    /\ FullBatch(last_call)
    /\ \E k \in 0..self.mini_batch_size :
           acc_list' = Append(acc_list, <<k, self.mini_batch_size>>)
    /\ Return("validate_mb_accuracy")
    /\ pc' = "validate"
    /\ UNCHANGED <<netVars, data, epochs, mini_batch_size, self, locals, range_iter,
                   params, last_call, train_calls, stdout, error>>

\* lines 370-378: the mean, the epoch's line, and the record of a new best
EndValidation ==
    /\ pc = "validate"
    /\ ~(Len(acc_list) < locals.num_validation_batches)
    /\ LET validation_accuracy == Mean(acc_list)
           recorded == IsNewBest(validation_accuracy, locals.best_validation_accuracy)
           epoch_line == <<"epoch", locals.epoch, validation_accuracy>>
           assigned == Assign(locals, "validation_accuracy", validation_accuracy)
       IN  /\ IF recorded
              THEN /\ locals' = Assign(Assign(assigned,
                          "best_validation_accuracy", validation_accuracy),
                          "best_iteration", locals.iteration)
                   /\ stdout' = stdout \o <<epoch_line, <<"best", locals.iteration>> >>
              ELSE /\ locals' = assigned
                   /\ PrintLine(epoch_line)
           /\ pc' = IF TestAfterValidation(recorded) THEN "test" ELSE "for_minibatch"
    /\ acc_list' = <<>>
    /\ UNCHANGED <<netVars, data, epochs, mini_batch_size, self, range_iter,
                   params, in_progress, last_call, train_calls, error>>

\* line 380: test_mb_accuracy(j) for the next j of range(num_test_batches)
CallTest ==
    /\ pc = "test"
    /\ Len(acc_list) < locals.num_test_batches
    /\ Call("test_mb_accuracy", "test", Len(acc_list))
    /\ pc' = "in_test_mb"
    /\ UNCHANGED <<netVars, data, epochs, mini_batch_size, self, locals, range_iter,
                   acc_list, params, train_calls, stdout, error>>

ReturnTest ==
    /\ pc = "in_test_mb"
    /\ FullBatch(last_call)
    /\ \E k \in 0..self.mini_batch_size :
           acc_list' = Append(acc_list, <<k, self.mini_batch_size>>)
    /\ Return("test_mb_accuracy")
    /\ pc' = "test"
    /\ UNCHANGED <<netVars, data, epochs, mini_batch_size, self, locals, range_iter,
                   params, last_call, train_calls, stdout, error>>

\* lines 379-382
EndTest ==
    /\ pc = "test"
    /\ ~(Len(acc_list) < locals.num_test_batches)
    /\ locals' = Assign(locals, "test_accuracy", Mean(acc_list))
    /\ PrintLine(<<"test", locals.iteration, Mean(acc_list)>>)
    /\ acc_list' = <<>>
    /\ pc' = "for_minibatch"
    /\ UNCHANGED <<netVars, data, epochs, mini_batch_size, self, range_iter,
                   params, in_progress, last_call, train_calls, error>>

\* An evaluator handed a short slice raises; SGD catches nothing
EvaluatorRaises ==
    /\ pc \in {"in_train_mb", "in_validate_mb", "in_test_mb", "in_predictions"}
    /\ ~FullBatch(last_call)
    /\ Return(last_call.fn)
    /\ pc' = "error"
    /\ error' = "ValueError"
    /\ UNCHANGED <<netVars, data, epochs, mini_batch_size, self, locals, range_iter,
                   acc_list, params, last_call, train_calls, stdout>>

\* lines 383-386: best_iteration and test_accuracy are bound only where a new
\* best was recorded; formatting an unbound local is an UnboundLocalError
Report ==
    /\ pc = "report"
    /\ IF IsBound(locals, "best_iteration") /\ IsBound(locals, "test_accuracy")
       THEN /\ stdout' = stdout \o
                 << <<"finished">>,
                    <<"summary", locals.best_validation_accuracy, locals.best_iteration>>,
                    <<"summary_test", locals.test_accuracy>> >>
            /\ pc' = "done"
            /\ error' = error
       ELSE /\ PrintLine(<<"finished">>)
            /\ pc' = "error"
            /\ error' = "UnboundLocalError"
    /\ UNCHANGED <<netVars, data, epochs, mini_batch_size, self, locals, range_iter,
                   acc_list, params, in_progress, last_call, train_calls>>

\* lines 354-359: self.test_mb_predictions is kept for callers of the trained
\* network, who pass it a mini-batch index: one of the test mini-batches, or
\* the first index past them
CallPredictions ==
    /\ pc = "done"
    /\ \E i \in 0..locals.num_test_batches : Call("test_mb_predictions", "test", i)
    /\ pc' = "in_predictions"
    /\ UNCHANGED <<netVars, data, epochs, mini_batch_size, self, locals, range_iter,
                   acc_list, params, train_calls, stdout, error>>

ReturnPredictions ==
    /\ pc = "in_predictions"
    /\ FullBatch(last_call)
    /\ Return("test_mb_predictions")
    /\ pc' = "done"
    /\ UNCHANGED <<netVars, data, epochs, mini_batch_size, self, locals, range_iter,
                   acc_list, params, last_call, train_calls, stdout, error>>

----------------------------------------------------------------------------
(* The specifications *)

NetIdle ==
    /\ layers = <<>>
    /\ layer_state = <<>>
    /\ calls = <<>>
    /\ net_pc = "idle"
    /\ net = [j |-> 0, output |-> Unbound, output_dropout |-> Unbound]

SGDIdle ==
    /\ data = [training |-> 0, validation |-> 0, test |-> 0]
    /\ epochs = 0
    /\ mini_batch_size = 0
    /\ self = [mini_batch_size |-> 0, last_layer |-> "none"]
    /\ pc = "idle"
    /\ locals = [n \in {} |-> 0]
    /\ range_iter = [epoch |-> 0, minibatch |-> 0]
    /\ acc_list = <<>>
    /\ params = <<>>
    /\ in_progress = {}
    /\ last_call = NoCall
    /\ train_calls = <<>>
    /\ stdout = <<>>

\* A call of Network(layers, mini_batch_size) on freshly constructed layers
InitNet ==
    /\ layers \in UNION {[1..n -> LayerSpace] : n \in 0..MaxLayers}
    /\ layer_state = [p \in 1..Len(layers) |-> FreshLayer]
    /\ calls = <<>>
    /\ net_pc = "init"
    /\ net = [j |-> 0, output |-> Unbound, output_dropout |-> Unbound]
    /\ error = ""
    /\ SGDIdle

NextNet == WireFirst \/ WireNext \/ FinishInit

SpecNet == InitNet /\ [][NextNet]_vars

\* A call of SGD on a constructed network (whose last layer is a
\* FullyConnectedLayer or a SoftmaxLayer) with any integer arguments
Init ==
    /\ NetIdle
    /\ data \in [training : 0..MaxRows, validation : 0..MaxRows, test : 0..MaxRows]
    /\ epochs \in (0 - 1)..MaxEpochs
    /\ mini_batch_size \in (0 - MaxBatch)..MaxBatch
    /\ self \in [mini_batch_size : 1..MaxBatch,
                 last_layer : {"SoftmaxLayer", "FullyConnectedLayer"}]
    /\ pc = "start"
    /\ locals = [n \in {} |-> 0]
    /\ range_iter = [epoch |-> 0, minibatch |-> 0]
    /\ acc_list = <<>>
    /\ params = [p \in 1..(2 * MaxLayers) |-> 0]
    /\ in_progress = {}
    /\ last_call = NoCall
    /\ train_calls = <<>>
    /\ stdout = <<>>
    /\ error = ""

Next ==
    \/ ComputeBatchCounts
    \/ BuildGraph
    \/ NextEpoch
    \/ EndEpochs
    \/ NextMinibatch
    \/ EndMinibatches
    \/ CallTrain
    \/ ReturnTrain
    \/ CallValidate
    \/ ReturnValidate
    \/ EndValidation
    \/ CallTest
    \/ ReturnTest
    \/ EndTest
    \/ EvaluatorRaises
    \/ Report
    \/ CallPredictions
    \/ ReturnPredictions

Spec == Init /\ [][Next]_vars

----------------------------------------------------------------------------
(* What the claims speak of *)

Splits == {"training", "validation", "test"}

\* floor(a / b) for a >= 0, b # 0
FloorDiv(a, b) == IF b > 0 THEN a \div b ELSE 0 - ((a + (0 - b) - 1) \div (0 - b))

\* Equal fractions, neither NaN
EQ(a, b) == GE(a, b) /\ GE(b, a)

\* Positions of the per-epoch validation lines in the output
EpochLines == {i \in DOMAIN stdout : stdout[i][1] = "epoch"}

\* ... and of those after which a new best was recorded
RecordedLines == {i \in EpochLines : i < Len(stdout) /\ stdout[i + 1][1] = "best"}

LastOf(S) == CHOOSE r \in S : \A q \in S : q <= r

\* The step that ends an epoch's validation (lines 370-377)
ValidationEnds == pc = "validate" /\ pc' \in {"test", "for_minibatch"}

SameBinding(name) ==
    /\ IsBound(locals', name) = IsBound(locals, name)
    /\ IsBound(locals, name) => locals'[name] = locals[name]

\* What a step of SGD may do to the recorded best
C1_Step ==
    /\ ValidationEnds =>
          LET v == Mean(acc_list)
              old == locals.best_validation_accuracy
          IN  /\ locals'.validation_accuracy = v
              /\ locals.iteration =
                     locals.num_training_batches * locals.epoch + locals.minibatch_index
              /\ IF GE(v, old)
                 THEN /\ locals'.best_validation_accuracy = v
                      /\ IsBound(locals', "best_iteration")
                      /\ locals'.best_iteration = locals.iteration
                 ELSE /\ locals'.best_validation_accuracy = old
                      /\ SameBinding("best_iteration")
    /\ ~ValidationEnds /\ IsBound(locals, "best_validation_accuracy") =>
          /\ SameBinding("best_validation_accuracy")
          /\ SameBinding("best_iteration")
    /\ IsBound(locals, "best_validation_accuracy") =>
          GE(locals'.best_validation_accuracy, locals.best_validation_accuracy)

(* C1: at every end-of-epoch validation the recorded best validation       *)
(* accuracy is replaced exactly when the new mean validation accuracy is   *)
(* >= the best so far (a tie replaces it), the best iteration then becomes *)
(* the current global iteration index, and otherwise both stay as they     *)
(* are; the recorded best never decreases.                                 *)
C1_BestReplacedOnGE == [][C1_Step]_vars

\* A later epoch ties the best so far and takes its place
C1_Witness ==
    \E i \in RecordedLines, j \in RecordedLines :
        /\ i < j
        /\ EQ(stdout[i][3], stdout[j][3])
        /\ locals.best_iteration = stdout[j + 1][2]
        /\ stdout[j + 1][2] > stdout[i + 1][2]

(* C2: in every epoch the mean validation accuracy is computed exactly     *)
(* once, right after the training step of mini-batch index                 *)
(* num_training_batches-1, after all of the epoch's training steps, and    *)
(* after no other training step.                                           *)
C2_ValidationOncePerEpoch ==
    /\ pc \in {"validate", "in_validate_mb"} =>
          /\ Len(train_calls) = locals.num_training_batches
          /\ locals.minibatch_index = locals.num_training_batches - 1
          /\ \A i \in EpochLines : stdout[i][2] # locals.epoch
    /\ pc = "for_epoch" /\ IsBound(locals, "epoch") =>
          Cardinality({i \in EpochLines : stdout[i][2] = locals.epoch}) = 1

\* What holds of the code: the same, for the epochs that have a mini-batch
C2_OncePerEpochWithBatches ==
    /\ pc \in {"validate", "in_validate_mb"} =>
          /\ Len(train_calls) = locals.num_training_batches
          /\ locals.minibatch_index = locals.num_training_batches - 1
          /\ \A i \in EpochLines : stdout[i][2] # locals.epoch
    /\ pc = "for_epoch" /\ IsBound(locals, "epoch") =>
          Cardinality({i \in EpochLines : stdout[i][2] = locals.epoch}) =
              IF locals.num_training_batches >= 1 THEN 1 ELSE 0

(* C3: when SGD has reported, the reported best validation accuracy is the *)
(* maximum of the epochs' validation accuracies, the reported iteration is *)
(* num_training_batches*epoch + num_training_batches-1 for the epoch whose *)
(* validation recorded that best, and the reported test accuracy is the    *)
(* one computed at that iteration.                                         *)
C3_ReportPairsBest ==
    \A s \in DOMAIN stdout : stdout[s][1] = "summary" =>
        LET best == stdout[s][2]
            at == stdout[s][3]
            test == stdout[s + 1][2]
            r == LastOf(RecordedLines)
            n == locals.num_training_batches
        IN  /\ EpochLines # {}
            /\ \A i \in EpochLines : GE(best, stdout[i][3])
            /\ RecordedLines # {}
            /\ stdout[r][3] = best
            /\ at = n * stdout[r][2] + (n - 1)
            /\ stdout[r + 1] = <<"best", at>>
            /\ stdout[r + 2] = <<"test", at, test>>
            /\ \A t \in DOMAIN stdout :
                   stdout[t][1] = "test" /\ stdout[t][2] = at => stdout[t][3] = test

\* A run whose last epoch did not reach the best: the report pairs the best
\* with an earlier epoch's test accuracy
C3_Witness ==
    /\ pc = "done"
    /\ \E i \in EpochLines : i \notin RecordedLines /\ i > LastOf(RecordedLines)

(* C4: each split's batch count is floor(rows / mini_batch_size), and an   *)
(* epoch executes exactly num_training_batches training steps, on          *)
(* mini-batch indices 0 .. num_training_batches-1 in order.                *)
C4_FloorBatchCount ==
    /\ IsBound(locals, "num_test_batches") =>
          /\ locals.num_training_batches = FloorDiv(data.training, mini_batch_size)
          /\ locals.num_validation_batches = FloorDiv(data.validation, mini_batch_size)
          /\ locals.num_test_batches = FloorDiv(data.test, mini_batch_size)
    /\ pc = "for_epoch" /\ IsBound(locals, "epoch") =>
          /\ Len(train_calls) = locals.num_training_batches
          /\ \A k \in DOMAIN train_calls : train_calls[k] = k - 1

\* What holds of the code: the same, for a positive mini_batch_size
C4_FloorForPositiveBatch ==
    mini_batch_size > 0 => C4_FloorBatchCount

\* Adjacent layers whose declared sizes differ
Mismatched == \E p \in 2..Len(layers) : layers[p].n_in # layers[p - 1].n_out

(* C5: a Network whose adjacent layers' declared sizes differ is rejected  *)
(* by the constructor before any layer is wired, and is never produced.    *)
C5_MismatchRejected ==
    Mismatched => calls = <<>> /\ net_pc \in {"init", "error"}

\* The arguments the error-handling design rejects
BadArguments ==
    \/ epochs <= 0
    \/ mini_batch_size <= 0
    \/ \E split \in Splits : mini_batch_size > data[split]

(* C6: SGD called with a non-positive epoch count, or with a               *)
(* mini_batch_size that is <= 0 or larger than a split's row count, ends   *)
(* in an error during graph construction: no training step runs, and the   *)
(* epoch loop and the final report are not reached.                        *)
C6_FailsFast ==
    BadArguments =>
        /\ pc \in {"start", "graph", "error"}
        /\ stdout = <<>>
        /\ \A p \in DOMAIN params : params[p] = 0

\* What a step may do to the parameters, the data and the open calls
C7_Step ==
    /\ params' # params => pc = "in_train_mb" /\ in_progress = {"train_mb"}
    /\ pc = "in_train_mb" /\ pc' \notin {"in_train_mb", "error"} =>
          \A p \in DOMAIN params : params'[p] = params[p] + 1
    /\ in_progress \cap {"validate_mb_accuracy", "test_mb_accuracy", "test_mb_predictions"} # {}
          => params' = params
    /\ data' = data
    /\ Cardinality(in_progress) <= 1 /\ Cardinality(in_progress') <= 1

(* C7: the parameters change only when train_mb returns, which updates     *)
(* every parameter once; the accuracy and prediction evaluators leave them *)
(* as they are; the dataset splits never change; at most one evaluator     *)
(* call is in progress.                                                    *)
C7_OnlyTrainWrites == [][C7_Step]_vars

\* After training, a predictions call has returned
C7_Witness ==
    /\ last_call.fn = "test_mb_predictions"
    /\ in_progress = {}
    /\ pc = "done"
    /\ \A p \in DOMAIN params : params[p] >= 2

\* An expression on which dropout_layer was applied
HasDropout(e) == \E t \in DOMAIN e : e[t][1] = "dropout"

(* C8: the constructor calls set_inpt on the layers in order, once each:   *)
(* the first layer is given x as both inputs, layer j >= 1 is given layer  *)
(* j-1's output as primary and layer j-1's output_dropout as dropout-path  *)
(* input, and the constructed network's output and output_dropout are the  *)
(* last layer's.                                                           *)
C8_Wiring ==
    /\ \A k \in DOMAIN calls : calls[k].layer = k
    /\ calls # <<>> => calls[1].inpt = X /\ calls[1].inpt_dropout = X
    /\ \A k \in 2..Len(calls) :
          /\ calls[k].inpt = layer_state[k - 1].output
          /\ calls[k].inpt_dropout = layer_state[k - 1].output_dropout
          /\ ~HasDropout(calls[k].inpt)
          /\ HasDropout(calls[k].inpt_dropout)
    /\ net_pc = "constructed" =>
          /\ Len(calls) = Len(layers)
          /\ net.output = layer_state[Len(layers)].output
          /\ net.output_dropout = layer_state[Len(layers)].output_dropout
          /\ net.output # Unbound /\ net.output_dropout # Unbound

C8_Witness ==
    /\ net_pc = "constructed"
    /\ Len(layers) >= 2
    /\ calls[2].inpt # calls[2].inpt_dropout

(* C9: set_inpt on a fresh ConvPoolLayer completes: it reshapes the input  *)
(* it is given, convolves that, and leaves output and output_dropout       *)
(* defined and identical.                                                  *)
C9_ConvSetInptCompletes ==
    \A k \in DOMAIN calls : layers[k].kind = "ConvPoolLayer" =>
        /\ net_pc # "error"
        /\ layer_state[k].inpt = Reshape(calls[k].inpt, layers[k].n_in)
        /\ layer_state[k].output # Unbound
        /\ layer_state[k].output = layer_state[k].output_dropout
        /\ SubSeq(layer_state[k].output, 1, Len(layer_state[k].inpt)) = layer_state[k].inpt

(* C10: when SGD's mini_batch_size equals the Network's, every slice a     *)
(* training, validation or test evaluator call of the loop reads lies      *)
(* within its split and holds exactly that many rows.                      *)
C10_SlicesInRange ==
    mini_batch_size = self.mini_batch_size /\ last_call.fn \in
            {"train_mb", "validate_mb_accuracy", "test_mb_accuracy"} =>
        /\ 0 <= last_call.lo
        /\ last_call.hi <= data[last_call.split]
        /\ last_call.hi - last_call.lo = mini_batch_size
        /\ last_call.rows_read = mini_batch_size

\* A second validation mini-batch is read
C10_Witness ==
    /\ mini_batch_size = self.mini_batch_size
    /\ last_call.fn = "validate_mb_accuracy"
    /\ last_call.i >= 1
    /\ pc = "in_validate_mb"

====
